---- MODULE Spec2Model ----
(***************************************************************************)
(* Model of the txtar parser of src/src/lib.rs: the marker scanner         *)
(* (find_next_marker, parse_leading_marker), the archive builder           *)
(* (impl From<&str> for Archive), newline normalisation (fix_newline) and  *)
(* the lookup accessors (contains, get, index).                            *)
(*                                                                         *)
(* A text is a sequence of one-character strings.  All characters of the   *)
(* model are ASCII, so byte offsets and character offsets coincide.        *)
(***************************************************************************)
EXTENDS Integers, Sequences, FiniteSets, TLC

VARIABLES input, orig, pc, caller, text, i, ret, comment, file_name, after,
          files, raws, marks, last

vars == <<input, orig, pc, caller, text, i, ret, comment, file_name, after,
          files, raws, marks, last>>

----------------------------------------------------------------------------
(* Bounds *)

\* number of fragments an input text is concatenated from
MaxToks == 5

\* number of files of a generated archive (round trip)
MaxGenFiles == 2

\* number of files of an archive the accessors are applied to
MaxLookupFiles == 3

----------------------------------------------------------------------------
(* Characters and the constants of lib.rs *)

NL == "\n"
CR == "\r"
SP == " "

EMPTY == << >>

MARKER == <<"-", "-", SP>>
NEWLINE_MARKER == <<NL, "-", "-", SP>>
MARKER_END == <<SP, "-", "-">>

----------------------------------------------------------------------------
(* str primitives used by the parser *)

\* char::is_whitespace, on the characters of the model
is_whitespace(c) == c \in {SP, NL, CR, "\t"}

\* a range s[a..b] is in bounds (otherwise the slice expression panics)
SliceOk(s, a, b) == 0 <= a /\ a <= b /\ b <= Len(s)

\* s[a..b], 0-based and end-exclusive like Rust
Slice(s, a, b) == SubSeq(s, a + 1, b)

starts_with(s, p) == Len(s) >= Len(p) /\ SubSeq(s, 1, Len(p)) = p

ends_with(s, p) == Len(s) >= Len(p) /\ SubSeq(s, Len(s) - Len(p) + 1, Len(s)) = p

\* str::find: 0-based offset of the first occurrence of p in s, -1 for None
find(s, p) ==
  LET Hit(k) == SubSeq(s, k + 1, k + Len(p)) = p
      Cand == {k \in 0..(Len(s) - Len(p)) : Hit(k)}
  IN IF Cand = {} THEN -1
     ELSE CHOOSE k \in Cand : \A j \in Cand : k <= j

\* a plausible slip: the newline kept at the head of the remainder
split_once_keep(s, c) ==
  LET k == find(s, <<c>>)
  IN IF k = -1 THEN <<FALSE, s, EMPTY>>
     ELSE <<TRUE, SubSeq(s, 1, k), SubSeq(s, k + 1, Len(s))>>

\* str::split_once(c): <<found, head, tail>> around the first occurrence of c
split_once(s, c) ==
  LET k == find(s, <<c>>)
  IN IF k = -1 THEN <<FALSE, s, EMPTY>>
     ELSE <<TRUE, SubSeq(s, 1, k), SubSeq(s, k + 2, Len(s))>>

RECURSIVE trim_start(_)
trim_start(s) ==
  IF s # EMPTY /\ is_whitespace(Head(s)) THEN trim_start(Tail(s)) ELSE s

RECURSIVE trim_end(_)
trim_end(s) ==
  IF s # EMPTY /\ is_whitespace(s[Len(s)])
  THEN trim_end(SubSeq(s, 1, Len(s) - 1)) ELSE s

\* str::trim
trim(s) == trim_end(trim_start(s))

----------------------------------------------------------------------------
(* parse_leading_marker *)

NoMarker == [panic |-> FALSE, name |-> EMPTY, after |-> EMPTY]

Panicked == [panic |-> TRUE, name |-> EMPTY, after |-> EMPTY]

\* a plausible slip: the close sequence's length left out of the check
TooShortNoClose(data) == Len(data) <= Len(MARKER)

\* the length test of line 221
TooShort(data) == Len(data) <= Len(MARKER) + Len(MARKER_END)

\* a plausible slip: every trailing carriage return stripped
StripCRAll(data) ==
  LET RECURSIVE strip(_)
      strip(d) == IF ends_with(d, <<CR>>) THEN strip(SubSeq(d, 1, Len(d) - 1)) ELSE d
  IN strip(data)

\* lines 217-219: at most one trailing carriage return is removed
StripCR(data) ==
  IF ends_with(data, <<CR>>) THEN Slice(data, 0, Len(data) - 1) ELSE data

\* a plausible slip: the name taken without trimming
MarkerNameUntrimmed(data) == Slice(data, Len(MARKER), Len(data) - Len(MARKER_END))

\* line 225: the name is the text between the open and close sequences, trimmed
MarkerName(data) == trim(Slice(data, Len(MARKER), Len(data) - Len(MARKER_END)))

\* lines 207-227: the name and the remainder when s begins with a marker
\* line, the empty name otherwise; panic marks a slice out of bounds
parse_leading_marker(s) ==
  IF ~starts_with(s, MARKER) THEN NoMarker
  ELSE
    LET sp    == split_once(s, NL)
        data0 == sp[2]
        aft   == sp[3]
        data  == StripCR(data0)
    IN IF ends_with(data0, <<CR>>) /\ ~SliceOk(data0, 0, Len(data0) - 1)
       THEN Panicked
       ELSE IF ~ends_with(data, MARKER_END) \/ TooShort(data) THEN NoMarker
       ELSE IF ~SliceOk(data, Len(MARKER), Len(data) - Len(MARKER_END))
            THEN Panicked
       ELSE [panic |-> FALSE,
             name  |-> MarkerName(data),
             after |-> aft]

----------------------------------------------------------------------------
(* fix_newline *)

\* a plausible slip: the emptiness test left out
fix_newline_always(s) ==
  IF ~ends_with(s, <<NL>>) THEN Append(s, NL) ELSE s

\* lines 197-203
fix_newline(s) ==
  IF s # EMPTY /\ ~ends_with(s, <<NL>>) THEN Append(s, NL) ELSE s

----------------------------------------------------------------------------
(* find_next_marker: the pieces of one loop iteration *)

\* a plausible slip: the newline before the marker line left out of `before`
ScanReturnNoNewline(s, k, name, aft) ==
  <<IF k = 0 THEN EMPTY ELSE Slice(s, 0, k - 1), name, aft>>

\* line 186: the tuple returned when a marker is found at offset k
ScanReturn(s, k, name, aft) == <<Slice(s, 0, k), name, aft>>

\* a plausible slip: `i = index + 1` for `i += index + 1`
ScanAdvanceAbs(k, index) == index + 1

\* line 190: the offset the search resumes at
ScanAdvance(k, index) == k + index + 1

\* a plausible slip: the empty text returned as `before`, as parse_leading_marker does
ScanFailEmpty(s) == <<EMPTY, EMPTY, EMPTY>>

\* line 192: the tuple returned when no marker is left
ScanFail(s) == <<s, EMPTY, EMPTY>>

----------------------------------------------------------------------------
(* Input texts *)

\* a well-formed marker line without its newline
MarkerA == MARKER \o <<"a">> \o MARKER_END

Tokens == << MarkerA, <<NL>>, <<CR>>, <<"a">>, MARKER, MARKER_END, <<"-">>, <<SP>> >>

RECURSIVE Flatten(_)
Flatten(t) == IF t = EMPTY THEN EMPTY ELSE Tokens[Head(t)] \o Flatten(Tail(t))

\* the ways to pick n fragments
Picks(n) == [1..n -> 1..Len(Tokens)]

NoArchive == [comment |-> EMPTY, files |-> EMPTY]

NoLookup == [op |-> "none", name |-> EMPTY, found |-> FALSE, at |-> 0, panic |-> FALSE]

----------------------------------------------------------------------------
(* Archive::from as a state machine *)

ParseStart(s, o) ==
  /\ input = s
  /\ orig = o
  /\ pc = "start"
  /\ caller = "none"
  /\ text = EMPTY
  /\ i = 0
  /\ ret = <<EMPTY, EMPTY, EMPTY>>
  /\ comment = EMPTY
  /\ file_name = EMPTY
  /\ after = EMPTY
  /\ files = EMPTY
  /\ raws = EMPTY
  /\ marks = EMPTY
  /\ last = NoLookup

Init == \E n \in 0..MaxToks : \E t \in Picks(n) : ParseStart(Flatten(t), NoArchive)

\* line 120: the first call of find_next_marker, on the whole input
CallFirst ==
  /\ pc = "start"
  /\ text' = input
  /\ i' = 0
  /\ caller' = "first"
  /\ pc' = "scan"
  /\ UNCHANGED <<input, orig, ret, comment, file_name, after, files, raws, marks, last>>

\* lines 183-194: one iteration of the loop of find_next_marker
ScanIter ==
  /\ pc = "scan"
  /\ IF ~SliceOk(text, i, Len(text))
     THEN /\ pc' = "panic"
          /\ UNCHANGED <<i, ret, marks>>
     ELSE LET rest == Slice(text, i, Len(text))
              r == parse_leading_marker(rest)
              index == find(rest, NEWLINE_MARKER)
          IN IF r.panic
             THEN /\ pc' = "panic"
                  /\ UNCHANGED <<i, ret, marks>>
             ELSE IF r.name # EMPTY /\ ~SliceOk(text, 0, i)
             THEN /\ pc' = "panic"
                  /\ UNCHANGED <<i, ret, marks>>
             ELSE IF r.name # EMPTY
             THEN /\ ret' = ScanReturn(text, i, r.name, r.after)
                  /\ marks' = Append(marks, Len(input) - Len(text) + i)
                  /\ pc' = "ret"
                  /\ UNCHANGED i
             ELSE IF index # -1
             THEN /\ i' = ScanAdvance(i, index)
                  /\ pc' = "scan"
                  /\ UNCHANGED <<ret, marks>>
             ELSE /\ ret' = ScanFail(text)
                  /\ pc' = "ret"
                  /\ UNCHANGED <<i, marks>>
  /\ UNCHANGED <<input, orig, caller, text, comment, file_name, after, files, raws, last>>

\* line 120: the result of the first call is bound
RecvFirst ==
  /\ pc = "ret" /\ caller = "first"
  /\ comment' = ret[1]
  /\ file_name' = ret[2]
  /\ after' = ret[3]
  /\ pc' = "while"
  /\ UNCHANGED <<input, orig, caller, text, i, ret, files, raws, marks, last>>

\* lines 122-123: the loop test passes and find_next_marker(after) is called
CallLoop ==
  /\ pc = "while" /\ file_name # EMPTY
  /\ text' = after
  /\ i' = 0
  /\ caller' = "loop"
  /\ pc' = "scan"
  /\ UNCHANGED <<input, orig, ret, comment, file_name, after, files, raws, marks, last>>

\* lines 123-131: a file is emitted and the loop variables move on
RecvLoop ==
  /\ pc = "ret" /\ caller = "loop"
  /\ files' = Append(files, [name |-> file_name, content |-> fix_newline(ret[1])])
  /\ raws' = Append(raws, ret[1])
  /\ file_name' = ret[2]
  /\ after' = ret[3]
  /\ pc' = "while"
  /\ UNCHANGED <<input, orig, caller, text, i, ret, comment, marks, last>>

\* lines 122, 134-137: the loop test fails and the Archive is returned
Finish ==
  /\ pc = "while" /\ file_name = EMPTY
  /\ pc' = "done"
  /\ UNCHANGED <<input, orig, caller, text, i, ret, comment, file_name, after, files, raws, marks, last>>

Next == CallFirst \/ ScanIter \/ RecvFirst \/ CallLoop \/ RecvLoop \/ Finish

Spec == Init /\ [][Next]_vars

----------------------------------------------------------------------------
(* Round trip: archives rendered in the txtar format and parsed back *)

GenComments ==
  { EMPTY,
    <<"a", NL>>,
    MARKER \o <<"b">> \o MARKER_END \o <<CR, NL>>,
    MARKER \o <<"a">> \o MARKER_END \o <<"-", NL>> }

GenNames == { <<"a">>, <<"b">>, <<SP, "a", CR>>, EMPTY, <<SP>> }

GenContents ==
  { EMPTY,
    <<"a", NL>>,
    <<NL>>,
    MARKER \o <<"a">> \o MARKER_END \o <<NL>>,
    <<"-", "-", SP, "-", "-", NL>> }

GenFile == [name : GenNames, content : GenContents]

GenArchives ==
  [comment : GenComments,
   files : UNION { [1..n -> GenFile] : n \in 0..MaxGenFiles }]

RECURSIVE RenderFiles(_)
RenderFiles(fs) ==
  IF fs = EMPTY THEN EMPTY
  ELSE MARKER \o Head(fs).name \o MARKER_END \o <<NL>> \o Head(fs).content
         \o RenderFiles(Tail(fs))

Render(a) == a.comment \o RenderFiles(a.files)

InitRT == \E o \in GenArchives : ParseStart(Render(o), o)

SpecRT == InitRT /\ [][Next]_vars

----------------------------------------------------------------------------
(* The accessors: contains, get, index *)

LookNames == { <<"a">>, <<SP, "a">>, <<"b">>, EMPTY }

LookContents == { EMPTY, <<"a", NL>> }

LookFile == [name : LookNames, content : LookContents]

LookFiles == UNION { [1..n -> LookFile] : n \in 0..MaxLookupFiles }

\* a plausible slip: the last match taken for the first
RECURSIVE iter_rfind(_, _, _)
iter_rfind(fs, n, k) ==
  IF k > Len(fs) THEN 0
  ELSE LET later == iter_rfind(fs, n, k + 1)
       IN IF later # 0 THEN later ELSE IF fs[k].name = n THEN k ELSE 0

\* files.iter().find(|f| f.name == n), from position k: the position found, 0 for None
RECURSIVE iter_find(_, _, _)
iter_find(fs, n, k) ==
  IF k > Len(fs) THEN 0
  ELSE IF fs[k].name = n THEN k
  ELSE iter_find(fs, n, k + 1)

\* files.iter().any(|f| f.name == n), from position k
RECURSIVE iter_any(_, _, _)
iter_any(fs, n, k) ==
  IF k > Len(fs) THEN FALSE
  ELSE IF fs[k].name = n THEN TRUE
  ELSE iter_any(fs, n, k + 1)

InitLookup ==
  /\ input = EMPTY
  /\ orig = NoArchive
  /\ pc = "built"
  /\ caller = "none"
  /\ text = EMPTY
  /\ i = 0
  /\ ret = <<EMPTY, EMPTY, EMPTY>>
  /\ comment \in {EMPTY, <<"a", NL>>}
  /\ file_name = EMPTY
  /\ after = EMPTY
  /\ files \in LookFiles
  /\ raws = EMPTY
  /\ marks = EMPTY
  /\ last = NoLookup

LookupFrame ==
  UNCHANGED <<input, orig, pc, caller, text, i, ret, comment, file_name, after,
              files, raws, marks>>

\* lines 99-101
Contains ==
  \E n \in LookNames :
    /\ pc = "built"
    /\ last' = [op |-> "contains", name |-> n, found |-> iter_any(files, n, 1),
                at |-> 0, panic |-> FALSE]
    /\ LookupFrame

\* lines 105-107
Get ==
  \E n \in LookNames :
    /\ pc = "built"
    /\ LET k == iter_find(files, n, 1)
       IN last' = [op |-> "get", name |-> n, found |-> k # 0, at |-> k, panic |-> FALSE]
    /\ LookupFrame

\* lines 146-151
Index ==
  \E n \in LookNames :
    /\ pc = "built"
    /\ LET k == iter_find(files, n, 1)
       IN last' = [op |-> "index", name |-> n, found |-> k # 0, at |-> k, panic |-> k = 0]
    /\ LookupFrame

NextLookup == Contains \/ Get \/ Index

SpecLookup == InitLookup /\ [][NextLookup]_vars

----------------------------------------------------------------------------
(* Vocabulary of the properties: lines of a text, by 0-based offset *)

Range(f) == { f[k] : k \in DOMAIN f }

\* the offsets at which a line of s begins
LineStarts(s) == { p \in 0..(Len(s) - 1) : p = 0 \/ s[p] = NL }

\* the offset of the newline ending the line that begins at p, Len(s) without one
LineEnd(s, p) ==
  CHOOSE q \in p..Len(s) :
    /\ q = Len(s) \/ s[q + 1] = NL
    /\ \A j \in p..(q - 1) : s[j + 1] # NL

\* the line beginning at p, without its newline
LineText(s, p) == SubSeq(s, p + 1, LineEnd(s, p))

\* the offset just past the line beginning at p and its newline
LineNext(s, p) == IF LineEnd(s, p) < Len(s) THEN LineEnd(s, p) + 1 ELSE Len(s)

\* the line beginning at p, with its newline when it has one
LineFull(s, p) == SubSeq(s, p + 1, LineNext(s, p))

StripOneCR(l) ==
  IF l # EMPTY /\ l[Len(l)] = CR THEN SubSeq(l, 1, Len(l) - 1) ELSE l

Opens(l) == Len(l) >= 3 /\ SubSeq(l, 1, 3) = MARKER

WellClosed(l) ==
  LET d == StripOneCR(l)
  IN Len(d) >= 3 /\ SubSeq(d, Len(d) - 2, Len(d)) = MARKER_END

HasName(l) ==
  LET d == StripOneCR(l)
  IN \E j \in 4..(Len(d) - 3) : ~is_whitespace(d[j])

\* "-- name --" with a name that is not blank, optionally followed by one CR
IsMarkerLine(l) == Opens(l) /\ WellClosed(l) /\ HasName(l)

\* "-- --", or "-- ", whitespace only, " --"
IsBlankMarkerLine(l) == Opens(l) /\ WellClosed(l) /\ ~HasName(l)

\* the line beginning at offset p of the input lies, verbatim, in the comment
\* or in the content of an emitted file
InContent(p) ==
  LET l == LineText(input, p)
  IN \/ /\ p + Len(l) <= Len(comment)
        /\ SubSeq(comment, p + 1, p + Len(l)) = l
     \/ \E k \in 1..Len(files) :
          LET st == LineNext(input, marks[k])
          IN /\ st <= p
             /\ p + Len(l) <= st + Len(raws[k])
             /\ SubSeq(files[k].content, p - st + 1, p - st + Len(l)) = l

\* the raw section of the k-th marker: from the end of its line to the next
\* marker line found, or to the end of the input
RawSection(k) ==
  SubSeq(input, LineNext(input, marks[k]) + 1,
         IF k < Len(marks) THEN marks[k + 1] ELSE Len(input))

\* the marker lines and raw sections from the k-th on, concatenated
RECURSIVE Rebuild(_)
Rebuild(k) ==
  IF k > Len(marks) THEN EMPTY
  ELSE LineFull(input, marks[k]) \o raws[k] \o Rebuild(k + 1)

----------------------------------------------------------------------------
(* C1: for every input text, Archive::from never panics (every slice taken   *)
(* is in bounds) and ends with an Archive value: a comment text and a       *)
(* sequence of files, each a name and a content.                            *)
C1_ParseTotal ==
  /\ pc # "panic"
  /\ pc = "scan" => SliceOk(text, i, Len(text))
  /\ pc = "done" =>
       /\ comment \in Seq(Range(input))
       /\ \A k \in 1..Len(files) : DOMAIN files[k] = {"name", "content"}

\* the parse of "-- --\r" completed: the carriage return was sliced off and
\* the line is shorter than the open and close sequences together
C1_Witness ==
  /\ pc = "done"
  /\ input = <<"-", "-", SP, "-", "-", CR>>

----------------------------------------------------------------------------
(* C2 as stated: every generated archive (comment empty or newline-ended,   *)
(* contents empty or newline-ended, names without newline) is parsed back   *)
(* from its rendering, names compared after trimming.                       *)
ParsedEqualsOrig ==
  /\ comment = orig.comment
  /\ Len(files) = Len(orig.files)
  /\ \A k \in 1..Len(files) :
       /\ k <= Len(orig.files)
       /\ files[k].name = trim(orig.files[k].name)
       /\ files[k].content = orig.files[k].content

C2_RoundTripAll == pc = "done" => ParsedEqualsOrig

HasMarkerLine(s) == \E p \in LineStarts(s) : IsMarkerLine(LineText(s, p))

HasNonBlank(s) == \E j \in 1..Len(s) : ~is_whitespace(s[j])

Stable(o) ==
  /\ ~HasMarkerLine(o.comment)
  /\ \A k \in 1..Len(o.files) :
       /\ HasNonBlank(o.files[k].name)
       /\ ~HasMarkerLine(o.files[k].content)

(* C2 amended: the round trip holds when, in addition, every name has a     *)
(* character that is not whitespace and neither the comment nor any content *)
(* holds a line that is itself a marker line.                               *)
C2_RoundTripStable == (pc = "done" /\ Stable(orig)) => ParsedEqualsOrig

\* a stable archive of two files, one with whitespace around its name and
\* one with a blank marker line as content, was parsed back
C2_Witness ==
  /\ pc = "done"
  /\ Stable(orig)
  /\ Len(orig.files) = 2
  /\ orig.files[1].name = <<SP, "a", CR>>
  /\ orig.files[2].content = <<"-", "-", SP, "-", "-", NL>>
  /\ orig.comment # EMPTY

----------------------------------------------------------------------------
(* C3 as stated: a line "-- --", or "-- ", whitespace, " --", is a marker   *)
(* and produces a file whose name is the empty text.                        *)
C3_BlankLineIsMarker ==
  pc = "done" =>
    \A p \in LineStarts(input) :
      IsBlankMarkerLine(LineText(input, p)) =>
        \E k \in 1..Len(files) : marks[k] = p /\ files[k].name = EMPTY

(* C3 amended: such a line is never a marker: no file starts at it, no file *)
(* has the empty name, and the line stays in the comment or in the content  *)
(* of the surrounding file.                                                 *)
C3_BlankLineNotMarker ==
  /\ \A k \in 1..Len(files) : files[k].name # EMPTY
  /\ \A p \in LineStarts(input) :
       IsBlankMarkerLine(LineText(input, p)) =>
         /\ p \notin Range(marks)
         /\ pc = "done" => InContent(p)

\* a file was emitted and a blank marker line follows its marker line
C3_Witness ==
  /\ pc = "done"
  /\ Len(files) = 1
  /\ \E p \in LineStarts(input) :
       /\ p > marks[1]
       /\ IsBlankMarkerLine(LineText(input, p))
       /\ Len(LineText(input, p)) > 6

----------------------------------------------------------------------------
----------------------------------------------------------------------------
(* C5: when no line of the input begins with "-- ", the archive has no      *)
(* files and its comment is the input, character for character.             *)
NoLineOpens(s) == \A p \in LineStarts(s) : ~Opens(LineText(s, p))

----------------------------------------------------------------------------
(* C6: a line that begins with "-- " and, one trailing carriage return      *)
(* removed, does not end with " --" starts no file and stays verbatim in    *)
(* the comment or a file's content; a line "-- name --" followed by exactly *)
(* one carriage return starts a file.                                       *)
C6_MalformedNotMarker ==
  \A p \in LineStarts(input) :
    LET l == LineText(input, p)
    IN /\ (Opens(l) /\ ~WellClosed(l)) =>
            /\ p \notin Range(marks)
            /\ pc = "done" => InContent(p)
       /\ (pc = "done" /\ IsMarkerLine(l) /\ l[Len(l)] = CR) => p \in Range(marks)

\* a malformed line was kept and a valid marker was found after it
C6_Witness ==
  /\ pc = "done"
  /\ \E p \in LineStarts(input) :
       /\ Opens(LineText(input, p))
       /\ ~WellClosed(LineText(input, p))
       /\ \E k \in 1..Len(marks) : marks[k] > p

----------------------------------------------------------------------------
(* C8 as stated: on a found marker, `before` is the text up to, and not     *)
(* including, the newline that precedes the marker line.                    *)
C8_BeforeExcludesNewline ==
  (pc = "ret" /\ ret[2] # EMPTY) =>
    ret[1] = IF i = 0 THEN EMPTY ELSE SubSeq(text, 1, i - 1)

(* C8 amended: on a found marker, `before` is the text up to and including  *)
(* the newline that precedes the marker line (empty when the marker is at   *)
(* offset 0), and the `before` of the first scan is the comment.            *)
C8_BeforeIncludesNewline ==
  /\ (pc = "ret" /\ ret[2] # EMPTY) =>
       /\ ret[1] = SubSeq(text, 1, i)
       /\ i > 0 => ret[1][Len(ret[1])] = NL
       /\ Opens(SubSeq(text, i + 1, Len(text)))
  /\ (pc \in {"while", "done"} /\ marks # EMPTY) =>
       /\ comment = SubSeq(input, 1, marks[1])
       /\ marks[1] > 0 => comment[Len(comment)] = NL

\* the first scan found a marker after a comment of two lines
C8_Witness ==
  /\ pc = "while"
  /\ comment = <<"a", NL, "a", NL>>
  /\ file_name = <<"a">>

----------------------------------------------------------------------------
(* C9: the scan offset grows on every iteration that does not return and    *)
(* stays within the text; the loop stops on the empty name.                 *)
ScanProgress ==
  (pc = "scan" /\ pc' = "scan" /\ caller' = caller) => (i < i' /\ i' <= Len(text))

StopsOnEmptyName == pc' = "done" => (file_name = EMPTY /\ ret[2] = EMPTY)

Emitted == Len(files') = Len(files) + 1

(* C9 as stated: `after` is strictly shorter after every emitted file.      *)
C9_AfterAlwaysShorter ==
  [][ScanProgress /\ StopsOnEmptyName /\ (Emitted => Len(after') < Len(after))]_vars

(* C9 amended: `after` is strictly shorter after every emitted file that is *)
(* followed by another marker, and is empty (never longer) after the last.  *)
C9_Progress ==
  [][/\ ScanProgress
     /\ StopsOnEmptyName
     /\ files' # files => Emitted
     /\ Emitted => /\ file_name' # EMPTY => Len(after') < Len(after)
                   /\ file_name' = EMPTY => after' = EMPTY
                   /\ Len(after') <= Len(after)]_vars

\* the scan passed a rejected candidate, then two files were emitted
C9_Witness ==
  /\ pc = "done"
  /\ Len(files) = 2
  /\ \E p \in LineStarts(input) :
       /\ Opens(LineText(input, p))
       /\ p < marks[1]

----------------------------------------------------------------------------
(* C10: a found marker splits the scanned text into before, one line that   *)
(* begins with "-- ", and after, nothing lost; a failed scan returns the    *)
(* whole text; so the input is the comment followed by each file's marker   *)
(* line and raw section, in order.                                          *)
C10_SplitLossless ==
  /\ pc = "ret" =>
       LET before == ret[1]
           aft == ret[3]
       IN IF ret[2] # EMPTY
          THEN /\ Len(before) + Len(aft) < Len(text)
               /\ LET l == SubSeq(text, Len(before) + 1, Len(text) - Len(aft))
                  IN /\ text = before \o l \o aft
                     /\ Opens(l)
                     /\ \A j \in 1..(Len(l) - 1) : l[j] # NL
                     /\ l[Len(l)] = NL \/ aft = EMPTY
               /\ before = EMPTY \/ before[Len(before)] = NL
          ELSE before = text /\ aft = EMPTY
  /\ pc = "done" =>
       /\ Len(files) = Len(marks) /\ Len(raws) = Len(marks)
       /\ input = comment \o Rebuild(1)
       /\ \A k \in 1..(Len(marks) - 1) : marks[k] < marks[k + 1]
       /\ \A k \in 1..Len(files) :
            LET d == StripOneCR(LineText(input, marks[k]))
            IN files[k].name = trim(SubSeq(d, 4, Len(d) - 3))

\* two files of the same name were kept, after a comment
C10_Witness ==
  /\ pc = "done"
  /\ Len(files) = 2
  /\ files[1].name = files[2].name
  /\ comment # EMPTY

----------------------------------------------------------------------------
(* C7: contains(n) holds iff some file's name is exactly n; get(n) is the   *)
(* first such file, None iff there is none; archive[n] is the same file and *)
(* panics iff there is none; no accessor changes the archive.               *)
Matches(fs, n) == { k \in 1..Len(fs) : fs[k].name = n }

LookupRight(l, fs) ==
  LET m == Matches(fs, l.name)
  IN /\ l.op = "contains" => l.found = (m # {})
     /\ l.op = "get" =>
          /\ l.found = (m # {})
          /\ l.found => (l.at \in m /\ \A j \in m : l.at <= j)
          /\ ~l.found => l.at = 0
          /\ ~l.panic
     /\ l.op = "index" =>
          /\ l.panic = (m = {})
          /\ ~l.panic => (l.at \in m /\ \A j \in m : l.at <= j)

C7_LookupFirstMatch ==
  [][files' = files /\ comment' = comment /\ LookupRight(last', files')]_vars

\* archive[n] returned the second file although the third has the same name
\* and the first has it up to whitespace
C7_Witness ==
  /\ last.op = "index"
  /\ last.name = <<"a">>
  /\ last.at = 2
  /\ Len(files) = 3
  /\ files[1].name = <<SP, "a">>
  /\ files[3].name = <<"a">>
====
